---- MODULE Spec2Model ----
(***************************************************************************)
(* Queen genotype inference from drone genotypes (src/Untitled-1.py).      *)
(*                                                                         *)
(* Python strings are sequences of one-character strings, so that          *)
(* str.split, str.strip, int() and string comparison are computed and not  *)
(* assumed.  The heterozygosity threshold is a number of eighths           *)
(* (0.125 = 1/8): eighths are exact binary floats, and for the totals      *)
(* reached here alt_count / total compares with them as the exact          *)
(* rational does, so `ratio < threshold` is alt_count * 8 < eighths*total. *)
(***************************************************************************)
EXTENDS Integers, Sequences, FiniteSets, TLC

\* ------------------------------------------------------------------ bounds
MaxDrones == 4
MaxMinDrones == 2
MaxLines == 2
MaxRecords == 2
MaxKeys == 3
MaxThreads == 2
MaxRewrites == 1

\* --------------------------------------------------------------- constants
\* argparse default of --het_thres, 0.125, in eighths
HetThresDefault == 1
\* argparse default of --min_drones
MinDronesDefault == 2

\* ----------------------------------------------------------------- strings
S_dot == <<".">>
S_missing == <<".", "/", ".">>
S_empty == <<>>
S_0 == <<"0">>
S_00 == <<"0", "/", "0">>
S_01 == <<"0", "/", "1">>
S_11 == <<"1", "/", "1">>

\* The characters used, in ascending code point order.
Alphabet == <<" ", ".", "/", "0", "1", "2", "3", "4", "5", "6", "7", "8", "9",
              ":", "A", "B", "d", "e", "x">>

ord(c) == CHOOSE i \in 1..Len(Alphabet) : Alphabet[i] = c

\* a < b for Python strings: lexicographic by code point
RECURSIVE StrLess(_, _)
StrLess(a, b) ==
    IF b = <<>> THEN FALSE
    ELSE IF a = <<>> THEN TRUE
    ELSE IF Head(a) # Head(b) THEN ord(Head(a)) < ord(Head(b))
    ELSE StrLess(Tail(a), Tail(b))

\* s.split(sep)[0]: the characters before the first sep
RECURSIVE SplitFirst(_, _)
SplitFirst(s, sep) ==
    IF s = <<>> \/ Head(s) = sep THEN <<>>
    ELSE <<Head(s)>> \o SplitFirst(Tail(s), sep)

\* s.strip().split(): the maximal runs of non-blank characters
RECURSIVE SplitWs(_, _)
SplitWs(s, cur) ==
    IF s = <<>> THEN (IF cur = <<>> THEN <<>> ELSE <<cur>>)
    ELSE IF Head(s) = " "
         THEN (IF cur = <<>> THEN <<>> ELSE <<cur>>) \o SplitWs(Tail(s), <<>>)
         ELSE SplitWs(Tail(s), Append(cur, Head(s)))

split(s) == SplitWs(s, <<>>)

\* int(s) for a string of decimal digits
RECURSIVE IntAcc(_, _)
IntAcc(s, acc) ==
    IF s = <<>> THEN acc
    ELSE IntAcc(Tail(s), 10 * acc + (ord(Head(s)) - ord("0")))

int(s) == IntAcc(s, 0)

SeqsUpTo(S, n) == UNION {[1..k -> S] : k \in 0..n}

\* ------------------------------------------------- consensus genotype rule
\* the calls a mode treats as missing (lines 107 and 109)
MissingCalls(haploid) == IF haploid THEN {S_dot, S_empty} ELSE {S_missing, S_empty}

valid_gts_of(drone_gts, haploid) ==
    LET Valid(gt) == gt \notin MissingCalls(haploid)
    IN  SelectSeq(drone_gts, Valid)

\* the reference call a mode compares with (lines 116 and 118)
RefCall(haploid) == IF haploid THEN S_0 ELSE S_00

alt_count_of(valid_gts, haploid) ==
    LET Alt(gt) == gt # RefCall(haploid)
    IN  Len(SelectSeq(valid_gts, Alt))

\* the bug `total <= min_drones`
TooFewExclusive(total, min_drones) == total <= min_drones

\* total < min_drones
TooFew(total, min_drones) == total < min_drones

\* the bug `ratio <= threshold`
BelowThresholdInclusive(alt_count, total, threshold) == alt_count * 8 <= threshold * total

\* ratio < threshold, with ratio = alt_count / total and threshold in eighths
BelowThreshold(alt_count, total, threshold) == alt_count * 8 < threshold * total

\* ratio > 1 - threshold
AboveThreshold(alt_count, total, threshold) == alt_count * 8 > (8 - threshold) * total

infer_queen_gt_from_list(drone_gts, threshold, min_drones, haploid) ==
    LET valid_gts == valid_gts_of(drone_gts, haploid)
        total == Len(valid_gts)
        alt_count == alt_count_of(valid_gts, haploid)
    IN  IF TooFew(total, min_drones) THEN S_missing
        ELSE IF BelowThreshold(alt_count, total, threshold) THEN S_00
        ELSE IF AboveThreshold(alt_count, total, threshold) THEN S_11
        ELSE S_01

\* ------------------------------------------------------- per-queen task
Min(a, b) == IF a < b THEN a ELSE b

\* dict(zip(sample_names, fields)).get(d, './.')
sample_get(sample_names, fields, d) ==
    LET idx == {i \in 1..Min(Len(sample_names), Len(fields)) : sample_names[i] = d}
    IN  IF idx = {} THEN S_missing
        ELSE fields[CHOOSE i \in idx : \A j \in idx : j <= i]

\* gt.split(':')[0] if gt != '.' else './.'
normalize(gt) == IF gt # S_dot THEN SplitFirst(gt, ":") ELSE S_missing

\* the loop of lines 92-96
drone_gts_of(sample_names, fields, drones) ==
    [i \in 1..Len(drones) |-> normalize(sample_get(sample_names, fields, drones[i]))]

\* An ordered dict: the keys in insertion order, and the values.
EmptyDict == [keys |-> <<>>, val |-> <<>>]

HasKey(d, k) == \E i \in 1..Len(d.keys) : d.keys[i] = k

DictGet(d, k) == d.val[CHOOSE i \in 1..Len(d.keys) : d.keys[i] = k]

\* d[k] = v
DictSet(d, k, v) ==
    IF HasKey(d, k)
    THEN [d EXCEPT !.val = [i \in 1..Len(d.keys) |-> IF d.keys[i] = k THEN v ELSE d.val[i]]]
    ELSE [keys |-> Append(d.keys, k), val |-> Append(d.val, v)]

\* the body of the record loop, lines 87-100, on the (genotypes, info_map) pair
RECURSIVE ReadRecords(_, _, _, _, _, _, _)
ReadRecords(records, sample_names, drones, th, md, hap, acc) ==
    IF records = <<>> THEN acc
    ELSE LET parts == Head(records)
             info_cols == SubSeq(parts, 1, Min(9, Len(parts)))
             fields == SubSeq(parts, 10, Len(parts))
             variant_key == SubSeq(parts, 1, Min(5, Len(parts)))
             gts == drone_gts_of(sample_names, fields, drones)
             gt == infer_queen_gt_from_list(gts, th, md, hap)
         IN  ReadRecords(Tail(records), sample_names, drones, th, md, hap,
                 [genotypes |-> DictSet(acc.genotypes, variant_key, gt),
                  info_map |-> DictSet(acc.info_map, variant_key, info_cols)])

NoResult == [ok |-> FALSE, queen_name |-> <<>>, genotypes |-> EmptyDict, info_map |-> EmptyDict]

get_queen_genotypes(input_vcf, queen_name, drones, th, md, hap) ==
    IF ~input_vcf.chrom THEN NoResult   \* raise ValueError("No #CHROM line found in VCF")
    ELSE LET r == ReadRecords(input_vcf.records, input_vcf.samples, drones, th, md, hap,
                              [genotypes |-> EmptyDict, info_map |-> EmptyDict])
         IN  [ok |-> TRUE, queen_name |-> queen_name,
              genotypes |-> r.genotypes, info_map |-> r.info_map]

extract_samples_from_header(input_vcf) ==
    IF input_vcf.chrom THEN input_vcf.samples ELSE <<>>

\* ------------------------------------------------------------------ state
VARIABLES
    haploid,          \* args.haploid
    threshold,        \* args.het_thres, in eighths
    min_drones,       \* args.min_drones
    threads,          \* args.threads
    list_lines,       \* the lines of args.list
    vcf,              \* the file at args.vcf: [chrom, samples, records]
    rewrites,         \* how often the file at args.vcf was replaced during the run
    line_no,          \* lines of the list file read so far
    queen_map,        \* ordered dict queen -> list of drones
    vcf_samples,      \* extract_samples_from_header(args.vcf)
    futures,          \* the submitted tasks, in submission order
    done_order,       \* the futures in the order in which their tasks finished
    merged,           \* futures whose result the merge loop has consumed
    all_genotypes,    \* ordered dict variant_key -> dict queen -> gt
    shared_info_map,  \* dict variant_key -> info_cols
    output,           \* the file written by write_combined_vcf
    pc,               \* where main() is
    sample_names,     \* get_queen_genotypes: cols[9:] of the header
    fields,           \* get_queen_genotypes: parts[9:] of the current record
    drones,           \* get_queen_genotypes: the queen's drones
    drone_gts,        \* the list handed to infer_queen_gt_from_list
    total,            \* infer_queen_gt_from_list: len(valid_gts)
    alt_count,        \* infer_queen_gt_from_list: alt_count, -1 before it is set
    queen_gt,         \* the value infer_queen_gt_from_list returned
    fpc               \* where the per-record computation is

args == <<haploid, threshold, min_drones, threads>>
inputs == <<list_lines, vcf, rewrites>>
mainvars == <<line_no, queen_map, vcf_samples, futures, done_order, merged, all_genotypes,
              shared_info_map, output, pc>>
callvars == <<sample_names, fields, drones, drone_gts, total, alt_count, queen_gt, fpc>>
vars == <<args, inputs, mainvars, callvars>>

\* ----------------------------------------------------------------- writer
\* the bug of comparing positions as strings
PosLessAsString(a, b) == StrLess(a[2], b[2])

\* variant_key_sorter(a) < variant_key_sorter(b): tuples (chrom, int(pos))
PosLess(a, b) == int(a[2]) < int(b[2])

KeyLess(a, b) ==
    \/ StrLess(a[1], b[1])
    \/ a[1] = b[1] /\ PosLess(a, b)

\* sorted(keys, key=variant_key_sorter): the stable sort
RECURSIVE InsertSorted(_, _)
InsertSorted(sorted, k) ==
    IF sorted = <<>> THEN <<k>>
    ELSE IF KeyLess(k, Head(sorted)) THEN <<k>> \o sorted
    ELSE <<Head(sorted)>> \o InsertSorted(Tail(sorted), k)

RECURSIVE SortedKeys(_)
SortedKeys(keys) ==
    IF keys = <<>> THEN <<>>
    ELSE InsertSorted(SortedKeys(SubSeq(keys, 1, Len(keys) - 1)), keys[Len(keys)])

\* the bug of taking the columns in the order in which the tasks finished
QueenNamesByCompletion(qm) ==
    [i \in 1..Len(done_order) |-> futures[done_order[i]].queen_name]

\* list(queen_map.keys())
QueenNames(qm) == [i \in 1..Len(qm.keys) |-> qm.keys[i]]

\* all_genotypes[variant_key].get(q, './.')
queen_gt_of(row, q) == IF HasKey(row, q) THEN DictGet(row, q) ELSE S_missing

\* lines 159-162
OutputRows(variant_keys, queen_names, ag, info) ==
    [i \in 1..Len(variant_keys) |->
        [info_cols |-> DictGet(info, variant_keys[i]),
         queen_gts |-> [j \in 1..Len(queen_names) |->
                          queen_gt_of(DictGet(ag, variant_keys[i]), queen_names[j])]]]

\* -------------------------------------------------------------- aggregator
\* the bug of pairing the queens, in submission order, with the results in
\* the order in which the tasks finished
RECURSIVE MergeResultByArrival(_, _, _)
MergeResultByArrival(res, n, acc) ==
    LET arrived == futures[done_order[merged + 1]].result
    IN  IF n > Len(arrived.genotypes.keys) THEN acc
        ELSE LET variant_key == arrived.genotypes.keys[n]
                 gt == arrived.genotypes.val[n]
                 row == IF HasKey(acc.all_genotypes, variant_key)
                        THEN DictGet(acc.all_genotypes, variant_key) ELSE EmptyDict
             IN  MergeResultByArrival(res, n + 1,
                     [all_genotypes |-> DictSet(acc.all_genotypes, variant_key,
                                                DictSet(row, res.queen_name, gt)),
                      shared_info_map |-> DictSet(acc.shared_info_map, variant_key,
                                                  DictGet(arrived.info_map, variant_key))])

\* lines 206-208 for one future's result
RECURSIVE MergeResult(_, _, _)
MergeResult(res, n, acc) ==
    IF n > Len(res.genotypes.keys) THEN acc
    ELSE LET variant_key == res.genotypes.keys[n]
             gt == res.genotypes.val[n]
             row == IF HasKey(acc.all_genotypes, variant_key)
                    THEN DictGet(acc.all_genotypes, variant_key) ELSE EmptyDict
         IN  MergeResult(res, n + 1,
                 [all_genotypes |-> DictSet(acc.all_genotypes, variant_key,
                                            DictSet(row, res.queen_name, gt)),
                  shared_info_map |-> DictSet(acc.shared_info_map, variant_key,
                                              DictGet(res.info_map, variant_key))])

\* ---------------------------------------------------------- pedigree loader
\* lines 180-185 for one line of the list file
LoadLine(qm, line) ==
    LET parts == split(line)
    IN  IF Len(parts) >= 2
        THEN LET queen == parts[1]
                 drone == parts[2]
                 group == IF HasKey(qm, queen) THEN DictGet(qm, queen) ELSE <<>>
             IN  DictSet(qm, queen, Append(group, drone))
        ELSE qm

\* ----------------------------------------------------------------- inputs
N_d == <<"d">>
N_e == <<"e">>
N_x == <<"x">>

\* het_thres values: 0.125, 0.25, 0.375
Thresholds == {1, 2, 3}

\* normalized calls a drone list may hold
Calls == {S_00, S_11, S_missing, S_dot, S_empty, S_0, <<"1">>}

\* raw sample fields of a record
RawFields == {<<"0", "/", "0", ":", "5">>, S_11, S_missing, S_dot,
              <<".", ":", "5">>, S_0, <<"1">>}

\* lines of the list file: "A d", "B e", "A  e ", "B"
Lines == {<<"A", " ", "d">>, <<"B", " ", "e">>, <<"A", " ", " ", "e", " ">>, <<"B">>}

Parts(chrom, pos, id, qual, f1, f2) ==
    <<chrom, pos, id, <<"A">>, <<"B">>, qual, <<".">>, <<".">>, <<".">>, f1, f2>>

\* records of the variant file of a pooled run
Records == {Parts(<<"2">>, <<"1", "0">>, <<".">>, <<"5">>, <<"0", "/", "0", ":", "5">>, S_11),
            Parts(<<"2">>, <<"1", "0">>, <<".">>, <<"7">>, S_11, S_00),
            Parts(<<"1", "0">>, <<"9">>, <<".">>, <<"5">>, S_missing, S_00)}

\* records that differ in chromosome, position and identifier
SortRecords == {Parts(<<"2">>, <<"1", "0">>, <<".">>, <<"5">>, S_00, S_11),
                Parts(<<"2">>, <<"9">>, <<".">>, <<"5">>, S_00, S_11),
                Parts(<<"2">>, <<"9">>, <<"x">>, <<"7">>, S_11, S_11),
                Parts(<<"1", "0">>, <<"9">>, <<".">>, <<"5">>, S_00, S_00)}

VcfFile(c, rs) == [chrom |-> c, samples |-> <<N_d, N_e>>, records |-> rs]

NoOutput == [written |-> FALSE, chrom_line |-> <<>>, rows |-> <<>>]

\* ------------------------------------------------------------------- Init
MainStart ==
    /\ rewrites = 0
    /\ line_no = 0
    /\ queen_map = EmptyDict
    /\ vcf_samples = <<>>
    /\ futures = <<>>
    /\ done_order = <<>>
    /\ merged = 0
    /\ all_genotypes = EmptyDict
    /\ shared_info_map = EmptyDict
    /\ output = NoOutput
    /\ pc = "load"

CallIdle ==
    /\ sample_names = <<>>
    /\ fields = <<>>
    /\ drones = <<>>
    /\ drone_gts = <<>>
    /\ total = 0
    /\ alt_count = -1
    /\ queen_gt = S_empty
    /\ fpc = "idle"

\* a pooled run over a small variant file
Init ==
    /\ haploid = FALSE
    /\ threshold = HetThresDefault
    /\ min_drones \in {1, MinDronesDefault}
    /\ threads \in 1..MaxThreads
    /\ list_lines \in SeqsUpTo(Lines, MaxLines)
    /\ vcf \in {VcfFile(c, rs) : c \in BOOLEAN, rs \in SeqsUpTo(Records, MaxRecords)}
    /\ MainStart
    /\ CallIdle

\* a run of one queen over variant files with many keys
InitSort ==
    /\ haploid = FALSE
    /\ threshold = HetThresDefault
    /\ min_drones = 1
    /\ threads = 1
    /\ list_lines = << <<"A", " ", "d">> >>
    /\ vcf \in {VcfFile(c, rs) : c \in BOOLEAN, rs \in SeqsUpTo(SortRecords, MaxKeys)}
    /\ MainStart
    /\ CallIdle

MainIdle ==
    /\ threads = 1
    /\ list_lines = <<>>
    /\ vcf = VcfFile(TRUE, <<>>)
    /\ MainStart

\* one call of infer_queen_gt_from_list
InitInfer ==
    /\ haploid \in BOOLEAN
    /\ threshold \in Thresholds
    /\ min_drones \in 1..MaxMinDrones
    /\ MainIdle
    /\ sample_names = <<>>
    /\ fields = <<>>
    /\ drones = <<>>
    /\ drone_gts \in SeqsUpTo(Calls, MaxDrones)
    /\ total = 0
    /\ alt_count = -1
    /\ queen_gt = S_empty
    /\ fpc = "call"

\* one record of one per-queen task
InitTask ==
    /\ haploid \in BOOLEAN
    /\ threshold = HetThresDefault
    /\ min_drones \in 1..MaxMinDrones
    /\ MainIdle
    /\ sample_names \in {<<N_d, N_e>>, <<N_d>>}
    /\ fields \in [1..2 -> RawFields]
    /\ drones \in SeqsUpTo({N_d, N_e, N_x}, MaxDrones) \ {<<>>}
    /\ drone_gts = <<>>
    /\ total = 0
    /\ alt_count = -1
    /\ queen_gt = S_empty
    /\ fpc = "record"

\* ------------------------------------------------- per-record computation
\* lines 92-96: the drone genotypes of the current record
ExtractGts ==
    /\ fpc = "record"
    /\ drone_gts' = drone_gts_of(sample_names, fields, drones)
    /\ fpc' = "call"
    /\ UNCHANGED <<args, inputs, mainvars, sample_names, fields, drones, total,
                   alt_count, queen_gt>>

\* lines 104-128
Infer ==
    /\ fpc = "call"
    /\ LET valid_gts == valid_gts_of(drone_gts, haploid)
       IN  /\ total' = Len(valid_gts)
           /\ alt_count' = IF TooFew(Len(valid_gts), min_drones) THEN -1
                           ELSE alt_count_of(valid_gts, haploid)
    /\ queen_gt' = infer_queen_gt_from_list(drone_gts, threshold, min_drones, haploid)
    /\ fpc' = "done"
    /\ UNCHANGED <<args, inputs, mainvars, sample_names, fields, drones, drone_gts>>

\* ------------------------------------------------------------------ main()
\* lines 179-185: one line of the list file
ReadListLine ==
    /\ pc = "load"
    /\ line_no < Len(list_lines)
    /\ line_no' = line_no + 1
    /\ queen_map' = LoadLine(queen_map, list_lines[line_no + 1])
    /\ UNCHANGED <<args, inputs, vcf_samples, futures, done_order, merged, all_genotypes,
                   shared_info_map, output, pc, callvars>>

\* lines 187-199: the sample header is read, missing drones are reported, the
\* output directory and the pool are made
ExtractSamples ==
    /\ pc = "load"
    /\ line_no = Len(list_lines)
    /\ vcf_samples' = extract_samples_from_header(vcf)
    /\ pc' = "pool"
    /\ UNCHANGED <<args, inputs, line_no, queen_map, futures, done_order, merged, all_genotypes,
                   shared_info_map, output, callvars>>

\* line 202: executor.submit for the next queen of queen_map
Submit ==
    /\ pc = "pool"
    /\ Len(futures) < Len(queen_map.keys)
    /\ LET n == Len(futures) + 1
       IN  futures' = Append(futures,
               [queen_name |-> queen_map.keys[n], drones |-> queen_map.val[n],
                state |-> "pending", opened |-> vcf, result |-> NoResult])
    /\ UNCHANGED <<args, inputs, line_no, queen_map, vcf_samples, done_order, merged,
                   all_genotypes, shared_info_map, output, pc, callvars>>

Running == {i \in 1..Len(futures) : futures[i].state = "running"}

\* a free worker takes the oldest pending task and opens the file (line 71)
TaskStart(i) ==
    /\ futures[i].state = "pending"
    /\ \A j \in 1..(i - 1) : futures[j].state # "pending"
    /\ Cardinality(Running) < threads
    /\ futures' = [futures EXCEPT ![i].state = "running", ![i].opened = vcf]
    /\ UNCHANGED <<args, inputs, line_no, queen_map, vcf_samples, done_order, merged,
                   all_genotypes, shared_info_map, output, pc, callvars>>

\* the worker returns from get_queen_genotypes, or raises
TaskFinish(i) ==
    /\ futures[i].state = "running"
    /\ futures' = [futures EXCEPT
                     ![i].state = "finished",
                     ![i].result = get_queen_genotypes(futures[i].opened,
                                       futures[i].queen_name, futures[i].drones,
                                       threshold, min_drones, haploid)]
    /\ done_order' = Append(done_order, i)
    /\ UNCHANGED <<args, inputs, line_no, queen_map, vcf_samples, merged, all_genotypes,
                   shared_info_map, output, pc, callvars>>

\* the future the merge loop waits for, in submission order (line 204)
NextFuture == merged + 1

CanCollect ==
    /\ pc = "pool"
    /\ Len(futures) = Len(queen_map.keys)
    /\ merged < Len(futures)
    /\ futures[NextFuture].state = "finished"

\* lines 205-208: future.result() returns and is merged
MergeOk ==
    /\ CanCollect
    /\ futures[NextFuture].result.ok
    /\ LET m == MergeResult(futures[NextFuture].result, 1,
                    [all_genotypes |-> all_genotypes, shared_info_map |-> shared_info_map])
       IN  /\ all_genotypes' = m.all_genotypes
           /\ shared_info_map' = m.shared_info_map
    /\ merged' = merged + 1
    /\ UNCHANGED <<args, inputs, line_no, queen_map, vcf_samples, futures, done_order,
                   output, pc, callvars>>

\* the bug of catching a task's exception and going on to the next future
MergeSkipFailed ==
    /\ CanCollect
    /\ ~futures[NextFuture].result.ok
    /\ merged' = merged + 1
    /\ UNCHANGED <<args, inputs, line_no, queen_map, vcf_samples, futures, done_order,
                   all_genotypes, shared_info_map, output, pc, callvars>>

\* line 205: future.result() raises the task's exception, which leaves main()
MergeRaise ==
    /\ CanCollect
    /\ ~futures[NextFuture].result.ok
    /\ pc' = "aborted"
    /\ UNCHANGED <<args, inputs, line_no, queen_map, vcf_samples, futures, done_order, merged,
                   all_genotypes, shared_info_map, output, callvars>>

\* the with block ends after the last future
ExitPool ==
    /\ pc = "pool"
    /\ Len(futures) = Len(queen_map.keys)
    /\ merged = Len(futures)
    /\ pc' = "write"
    /\ UNCHANGED <<args, inputs, line_no, queen_map, vcf_samples, futures, done_order, merged,
                   all_genotypes, shared_info_map, output, callvars>>

\* lines 145-162: write_combined_vcf up to the end of the text file
Write ==
    /\ pc = "write"
    /\ LET variant_keys == SortedKeys(all_genotypes.keys)
           queen_names == QueenNames(queen_map)
       IN  output' = [written |-> TRUE,
                      chrom_line |-> IF vcf.chrom THEN <<queen_names>> ELSE <<>>,
                      rows |-> OutputRows(variant_keys, queen_names, all_genotypes,
                                          shared_info_map)]
    /\ pc' = "compress"
    /\ UNCHANGED <<args, inputs, line_no, queen_map, vcf_samples, futures, done_order, merged,
                   all_genotypes, shared_info_map, callvars>>

\* lines 164-165: bgzip and tabix, check=True
Compress ==
    /\ pc = "compress"
    /\ \/ pc' = "done"
       \/ pc' = "aborted"
    /\ UNCHANGED <<args, inputs, line_no, queen_map, vcf_samples, futures, done_order, merged,
                   all_genotypes, shared_info_map, output, callvars>>

\* another process replaces the file at args.vcf: the quality column of one
\* record changes
Reannotate(i) ==
    /\ rewrites < MaxRewrites
    /\ pc \in {"load", "pool"}
    /\ rewrites' = rewrites + 1
    /\ vcf' = [vcf EXCEPT !.records[i][6] = IF @ = <<"5">> THEN <<"7">> ELSE <<"5">>]
    /\ UNCHANGED <<args, list_lines, mainvars, callvars>>

Next ==
    \/ ReadListLine
    \/ ExtractSamples
    \/ Submit
    \/ \E i \in 1..Len(futures) : TaskStart(i)
    \/ \E i \in 1..Len(futures) : TaskFinish(i)
    \/ MergeOk
    \/ MergeRaise
    \/ ExitPool
    \/ Write
    \/ Compress

NextEnv ==
    \/ Next
    \/ \E i \in 1..Len(vcf.records) : Reannotate(i)

NextCall ==
    \/ ExtractGts
    \/ Infer

NextInfer == Infer

\* a pooled run
Spec == Init /\ [][Next]_vars

\* a run over many variant keys
SpecSort == InitSort /\ [][Next]_vars

\* a pooled run during which the variant file is replaced
SpecEnv == Init /\ [][NextEnv]_vars

\* one call of the rule
SpecInfer == InitInfer /\ [][NextInfer]_vars

\* one record of a per-queen task
SpecTask == InitTask /\ [][NextCall]_vars

\* ================================================================ claims
\* the valid calls of the list, counted on the positions of the list
ValidPositions == {i \in DOMAIN drone_gts : drone_gts[i] \notin MissingCalls(haploid)}

AltPositions == {i \in ValidPositions : drone_gts[i] # RefCall(haploid)}

\* C1: with total >= M valid calls and ratio = altCount / total, the result
\* is 0/0 exactly when ratio < T, 1/1 exactly when ratio > 1 - T, and 0/1
\* otherwise; ratio = T and ratio = 1 - T both give 0/1.
C1_ThresholdRule ==
    fpc = "done" =>
        LET tot == Cardinality(ValidPositions)
            alt == Cardinality(AltPositions)
        IN  tot >= min_drones =>
              /\ tot = total /\ alt = alt_count
              /\ (queen_gt = S_00) <=> (alt * 8 < threshold * tot)
              /\ (queen_gt = S_11) <=> (alt * 8 > (8 - threshold) * tot)
              /\ (queen_gt = S_01) <=> /\ alt * 8 >= threshold * tot
                                       /\ alt * 8 <= (8 - threshold) * tot
              /\ (alt * 8 = threshold * tot => queen_gt = S_01)
              /\ (alt * 8 = (8 - threshold) * tot => queen_gt = S_01)

\* a call made exactly at ratio = T
C1_Witness ==
    /\ fpc = "done"
    /\ total >= min_drones
    /\ alt_count > 0
    /\ alt_count * 8 = threshold * total
    /\ queen_gt = S_01

\* C2: fewer than M valid calls give the missing call; exactly M valid
\* calls give one of 0/0, 0/1, 1/1, in either ploidy mode.
C2_MinDrones ==
    fpc = "done" =>
        LET tot == Cardinality(ValidPositions)
        IN  /\ tot < min_drones => queen_gt = S_missing
            /\ tot = min_drones => queen_gt \in {S_00, S_01, S_11}

C2_Witness ==
    /\ fpc = "done"
    /\ total = min_drones
    /\ Len(drone_gts) > total
    /\ haploid
    /\ queen_gt \in {S_00, S_01, S_11}

\* the drones of the task that the current record gives no call for: absent
\* from the record's sample mapping, or with the mode's missing call as field
Present(d) == \E i \in 1..Min(Len(sample_names), Len(fields)) : sample_names[i] = d

MissingCall == IF haploid THEN S_dot ELSE S_missing

Uncalled ==
    {i \in DOMAIN drones :
        \/ ~Present(drones[i])
        \/ sample_get(sample_names, fields, drones[i]) = MissingCall}

\* C3: a drone absent from the record's sample mapping, or whose raw field
\* is the missing call, is counted neither in total nor in altCount, in
\* haploid and in diploid mode.
C3_MissingNeverCounted ==
    fpc = "done" =>
        /\ total <= Len(drones) - Cardinality(Uncalled)
        /\ alt_count <= Len(drones) - Cardinality(Uncalled)

\* the pedigree the list prefix read so far gives when each line is read as
\* `drone_id queen_id`
RECURSIVE ListedPedigree(_, _)
ListedPedigree(lines, qm) ==
    IF lines = <<>> THEN qm
    ELSE LET parts == split(Head(lines))
             next == IF Len(parts) >= 2
                     THEN DictSet(qm, parts[2],
                                  Append(IF HasKey(qm, parts[2]) THEN DictGet(qm, parts[2])
                                         ELSE <<>>, parts[1]))
                     ELSE qm
         IN  ListedPedigree(Tail(lines), next)

\* C4: each line with at least two tokens adds its first token as a drone
\* to the group of the queen named by its second token, groups in file
\* order; lines with fewer than two tokens add nothing.
C4_DroneThenQueen ==
    queen_map = ListedPedigree(SubSeq(list_lines, 1, line_no), EmptyDict)

\* the queens in the order of their first line in the list file
RECURSIVE FirstSeen(_, _)
FirstSeen(lines, seen) ==
    IF lines = <<>> THEN seen
    ELSE LET parts == split(Head(lines))
             known == \E i \in DOMAIN seen : seen[i] = parts[1]
         IN  FirstSeen(Tail(lines),
                       IF Len(parts) >= 2 /\ ~known THEN Append(seen, parts[1]) ELSE seen)

RowKey(row) == SubSeq(row.info_cols, 1, 5)

\* the call the task of queen q returned for a variant key
TaskCall(q, key) ==
    LET i == CHOOSE i \in DOMAIN futures : futures[i].queen_name = q
        g == futures[i].result.genotypes
    IN  IF HasKey(g, key) THEN DictGet(g, key) ELSE S_missing

\* C5: whatever the order in which the tasks finish, the queen columns of
\* the header and of every row are in the order of the queens' first lines
\* in the list file, and a column holds the calls of the task of its queen.
C5_ColumnOrder ==
    output.written =>
        LET names == FirstSeen(list_lines, <<>>)
        IN  /\ vcf.chrom => output.chrom_line = <<names>>
            /\ \A r \in DOMAIN output.rows :
                 /\ Len(output.rows[r].queen_gts) = Len(names)
                 /\ \A j \in DOMAIN names :
                      output.rows[r].queen_gts[j] = TaskCall(names[j], RowKey(output.rows[r]))

\* the queen submitted second finished first, and the two columns differ
C5_Witness ==
    /\ output.written
    /\ Len(done_order) >= 2
    /\ done_order[1] = 2
    /\ Len(output.rows) >= 1
    /\ output.rows[1].queen_gts[1] # output.rows[1].queen_gts[2]

\* C6: the rows are one per distinct variant key of the merged table, in
\* non-decreasing order of (chromosome as a string, position as an integer).
C6_SortedRows ==
    output.written =>
        LET rows == output.rows
            TableKeys == {all_genotypes.keys[i] : i \in DOMAIN all_genotypes.keys}
        IN  /\ Len(rows) = Cardinality(TableKeys)
            /\ {RowKey(rows[i]) : i \in DOMAIN rows} = TableKeys
            /\ TableKeys = {SubSeq(vcf.records[i], 1, 5) : i \in DOMAIN vcf.records}
            /\ \A i \in 1..(Len(rows) - 1) :
                 LET a == RowKey(rows[i])
                     b == RowKey(rows[i + 1])
                 IN  \/ StrLess(a[1], b[1])
                     \/ a[1] = b[1] /\ int(a[2]) <= int(b[2])

\* rows "10" before "2" by chromosome, and 9 before 10 by position
C6_Witness ==
    /\ output.written
    /\ \E i \in 1..(Len(output.rows) - 1) :
         /\ int(RowKey(output.rows[i])[1]) > int(RowKey(output.rows[i + 1])[1])
    /\ \E i \in 1..(Len(output.rows) - 1) :
         /\ RowKey(output.rows[i])[1] = RowKey(output.rows[i + 1])[1]
         /\ StrLess(RowKey(output.rows[i + 1])[2], RowKey(output.rows[i])[2])

\* what the inputs alone determine: the queens and their drones from the
\* list file, the variant keys from the variant file, the last record of a key
ListedDrones(q) ==
    LET Mine(line) == Len(split(line)) >= 2 /\ split(line)[1] = q
        mine == SelectSeq(list_lines, Mine)
    IN  [i \in DOMAIN mine |-> split(mine[i])[2]]

RECURSIVE FirstKeys(_, _)
FirstKeys(records, seen) ==
    IF records = <<>> THEN seen
    ELSE LET k == SubSeq(Head(records), 1, 5)
         IN  FirstKeys(Tail(records),
                       IF \E i \in DOMAIN seen : seen[i] = k THEN seen ELSE Append(seen, k))

LastRecord(key) ==
    LET at == {i \in DOMAIN vcf.records : SubSeq(vcf.records[i], 1, 5) = key}
    IN  vcf.records[CHOOSE i \in at : \A j \in at : j <= i]

InputCall(q, key) ==
    infer_queen_gt_from_list(
        drone_gts_of(vcf.samples, SubSeq(LastRecord(key), 10, Len(LastRecord(key))),
                     ListedDrones(q)),
        threshold, min_drones, haploid)

InputRun ==
    LET queens == FirstSeen(list_lines, <<>>)
        keys == IF queens = <<>> \/ ~vcf.chrom THEN <<>> ELSE FirstKeys(vcf.records, <<>>)
        sorted == SortedKeys(keys)
    IN  [all_genotypes |->
            [keys |-> keys,
             val |-> [i \in DOMAIN keys |->
                        [keys |-> queens,
                         val |-> [j \in DOMAIN queens |-> InputCall(queens[j], keys[i])]]]],
         shared_info_map |->
            [keys |-> keys,
             val |-> [i \in DOMAIN keys |-> SubSeq(LastRecord(keys[i]), 1, 9)]],
         output |->
            [written |-> TRUE,
             chrom_line |-> IF vcf.chrom THEN <<queens>> ELSE <<>>,
             rows |-> [i \in DOMAIN sorted |->
                         [info_cols |-> SubSeq(LastRecord(sorted[i]), 1, 9),
                          queen_gts |-> [j \in DOMAIN queens |->
                                           InputCall(queens[j], sorted[i])]]]]]

\* C7: for a fixed variant file, pedigree and configuration, the merged
\* table and the output are the same for every worker count and every
\* schedule of the tasks: they are a function of these inputs alone.
C7_Deterministic ==
    output.written =>
        /\ output = InputRun.output
        /\ all_genotypes = InputRun.all_genotypes
        /\ shared_info_map = InputRun.shared_info_map

\* two workers, the tasks finished against submission order, two rows written
C7_Witness ==
    /\ output.written
    /\ threads >= 2
    /\ Len(done_order) >= 2
    /\ done_order[1] # 1
    /\ Len(output.rows) >= 2

\* two merged results that give different annotation columns for a key
Disagree(i, j) ==
    \E n \in DOMAIN futures[i].result.info_map.keys :
        LET k == futures[i].result.info_map.keys[n]
        IN  /\ HasKey(futures[j].result.info_map, k)
            /\ DictGet(futures[j].result.info_map, k) # futures[i].result.info_map.val[n]

\* C8: when two queens' tasks report different annotation columns for a
\* variant key, the run ends in a fatal error and nothing is written.
C8_ConsistencyError ==
    (\E i, j \in 1..merged : i < j /\ Disagree(i, j)) =>
        /\ pc = "aborted"
        /\ ~output.written

\* C9: without a #CHROM line in the variant file no task is ever submitted
\* and no output is written.
C9_NoTaskWithoutHeader ==
    ~vcf.chrom => /\ futures = <<>>
                  /\ ~output.written

AllTasksSucceeded ==
    /\ line_no = Len(list_lines)
    /\ Len(futures) = Len(queen_map.keys)
    /\ merged = Len(futures)
    /\ \A i \in DOMAIN futures : futures[i].state = "finished" /\ futures[i].result.ok

\* C10: the writer runs at most once and only after every queen's task has
\* succeeded; when a task fails nothing is written, and no written row
\* lacks a queen's column.
C10_AllOrNothing ==
    /\ [](pc \in {"write", "compress", "done"} \/ output.written => AllTasksSucceeded)
    /\ []((\E i \in DOMAIN futures : futures[i].state = "finished" /\ ~futures[i].result.ok)
            => ~output.written /\ pc \notin {"write", "compress", "done"})
    /\ [](\A r \in DOMAIN output.rows :
            Len(output.rows[r].queen_gts) = Len(queen_map.keys))
    /\ [][output.written => output' = output /\ pc' # "write" /\ pc' # "compress"]_vars

\* a task has failed and the run has ended with nothing written
C10_Witness ==
    /\ pc = "aborted"
    /\ ~output.written
    /\ Len(futures) >= 2
    /\ \E i \in DOMAIN futures : futures[i].state = "finished" /\ ~futures[i].result.ok

====
